---- MODULE Spec2Model ----
(***************************************************************************)
(* A model of the UI-thread executor of rust_win32_async_sample:           *)
(*   src/src/uiexec.rs  Pool, Spawner, Shared, Entry                       *)
(*   src/src/main.rs    main_loop, window_proc, on_mouse_down, wait_for    *)
(* One owning (UI) thread runs main_loop; producer threads call            *)
(* Spawner::spawn; timer threads fire the wakers of suspended tasks.       *)
(***************************************************************************)
EXTENDS Integers, Sequences, FiniteSets, TLC

\* ---------------------------------------------------------------- bounds
MaxTasks == 2      \* futures ever handed to spawn
MaxAwaits == 2     \* await points of one future (it needs MaxAwaits + 1 polls)
MaxQueued == 6     \* queued WM_NULL messages told apart (more count as this;
                   \* with MaxTasks = MaxAwaits = 2 no more are ever queued)

\* --------------------------------------------------------------- threads
UI == "ui"
Producers == {"p1", "p2"}
Threads == Producers \cup {UI}

TaskIds == 1..MaxTasks

VARIABLES
    poolAlive,   \* the Pool value exists (it holds one strong Arc of Shared)
    executing,   \* Pool.executing : sequence of Entry [id, done]
    pending,     \* Shared.pending : sequence of task ids
    lock,        \* holder of the Mutex<Shared>: "none" or a thread
    wmNull,      \* WM_NULL thread messages queued for the owning thread
    quitPosted,  \* PostQuitMessage was called and WM_QUIT not yet retrieved
    poisoned,    \* the Mutex<Shared> is poisoned: a thread panicked holding it
    pc,          \* where the owning thread is
    idx,         \* position of the iter_mut() loop in executing (1-based)
    any,         \* the local `any` of run_until_stalled
    pres,        \* result of the poll in progress
    sp,          \* per thread: the spawn call in progress
    fut,         \* per task: the state of its future
    nextId,      \* next unused task id
    removed,     \* history: tasks removed by retain
    discarded,   \* history: tasks dropped with the Pool or with Shared
    ready,       \* history: per task, how often a poll returned Ready
    lateRes,     \* history: results of spawn calls begun after the Pool dropped
    passLog,     \* history: ids polled in the current pass, in order
    callPolls,   \* history: per task, polls in the current call
    callWakes,   \* history: WM_NULL posted by the owning thread in the call
    passes,      \* history: passes started in the current call
    callN,       \* history: Len(executing) right after the drain of the call
    eff,         \* history: per task, polls that were not spurious
    polling,     \* history: the task whose poll is in progress, or 0
    reent,       \* history: tasks spawned from inside a poll in this call
    immediate,   \* history: tasks Ready on their first poll in this call
    woken,       \* history: per task, 1 once its waker was invoked, 2 once
                 \*   a call has begun since, 0 once that call polled it
    modalWoken   \* history: tasks whose wake (the WM_NULL of their spawn or
                 \*   of their waker) was posted while the owning thread
                 \*   was in the message box, and that no poll has begun
                 \*   for since

vars == << poolAlive, executing, pending, lock, wmNull, quitPosted,
           poisoned, pc,
           idx, any, pres, sp, fut, nextId, removed, discarded, ready,
           lateRes, passLog, callPolls, callWakes, passes, callN, eff,
           polling, reent, immediate, woken, modalWoken >>

poolVars == << poolAlive, executing >>
loopVars == << pc, idx, any, pres >>
callHist == << passLog, callPolls, callWakes, passes, callN, polling, reent,
              immediate >>
taskHist == << removed, ready, eff, woken, modalWoken >>

\* --------------------------------------------------------------- helpers
Range(s) == { s[i] : i \in 1..Len(s) }

Ids(s) == [ i \in 1..Len(s) |-> s[i].id ]

RECURSIVE Retain(_)
Retain(s) ==
    IF s = << >> THEN << >>
    ELSE IF Head(s).done THEN Retain(Tail(s))
         ELSE << Head(s) >> \o Retain(Tail(s))

\* A drain that appends the pending queue back to front.
EntriesReversed(s) ==
    [ i \in 1..Len(s) |-> [id |-> s[Len(s) + 1 - i], done |-> FALSE] ]

\* line 70: the entries executing.append(&mut shared.pending) moves over
Entries(s) == [ i \in 1..Len(s) |-> [id |-> s[i], done |-> FALSE] ]

\* Futures a producer thread may hand to spawn, the future window_proc
\* spawns, and the future a "spawner" task spawns from inside its poll.
NewFut(kind, n) == [kind |-> kind, k |-> n, awaits |-> n,
                    armed |-> FALSE, fired |-> FALSE]
NoFut == NewFut("none", 0)
ProducerFutures ==
    { NewFut("plain", n) : n \in 0..MaxAwaits } \cup { NewFut("spawner", 0) }
OnMouseDown == NewFut("modal", 1)
ChildFut == NewFut("child", 0)

\* Threads that hold an upgraded Arc<Mutex<Shared>> (the local `shared`
\* of spawn lives from the upgrade to the return).
Holders == { th \in Threads : sp[th].pc \in {"lock", "unlock", "post"} }
SharedAlive == poolAlive \/ Holders # {}

\* The owning thread is inside MessageBoxW (on_mouse_down line 33), in
\* its message loop or in a window_proc that loop has called.
InModal == pc \in {"modal", "modal_call"}

\* PostThreadMessageW(thread_id, WM_NULL, 0, 0) # 0
PostOk == pc # "exited"

\* A post that queues nothing.
QueuedLost(n) == n - 1

\* The number of queued WM_NULL messages after a post, as the model
\* counts them: MaxQueued stands for MaxQueued or more.
Queued(n) == IF n > MaxQueued THEN MaxQueued ELSE n

\* ------------------------------------------------------------------ Init
\* Pool::new on the owning thread, one Spawner clone per thread, and the
\* owning thread about to enter GetMessageW for the first time.
Init ==
    /\ poolAlive = TRUE
    /\ executing = << >>
    /\ pending = << >>
    /\ lock = "none"
    /\ wmNull = 0
    /\ quitPosted = FALSE
    /\ poisoned = FALSE
    /\ pc = "wait"
    /\ idx = 1
    /\ any = FALSE
    /\ pres = "none"
    /\ sp = [ th \in Threads |->
                [pc |-> "idle", task |-> 0, late |-> FALSE] ]
    /\ fut = [ t \in TaskIds |-> NoFut ]
    /\ nextId = 1
    /\ removed = {}
    /\ discarded = {}
    /\ ready = [ t \in TaskIds |-> 0 ]
    /\ lateRes = {}
    /\ passLog = << >>
    /\ callPolls = [ t \in TaskIds |-> 0 ]
    /\ callWakes = 0
    /\ passes = 0
    /\ callN = 0
    /\ eff = [ t \in TaskIds |-> 0 ]
    /\ polling = 0
    /\ reent = {}
    /\ immediate = {}
    /\ woken = [ t \in TaskIds |-> 0 ]
    /\ modalWoken = {}

\* ------------------------------------------------------- Spawner::spawn
\* The owning thread calls spawn from window_proc (WM_LBUTTONDOWN, from
\* main_loop's dispatch or from the modal loop of MessageBoxW) and from
\* inside the poll of a task that spawns; a producer calls it at any time.
UICallSites == {"wproc_call", "poll_call", "modal_call"}

\* A loop that goes back to GetMessageW after every message.
AfterMatchSkip(m) == "wait"

\* main_loop lines 45-50: WM_QUIT returns from the closure (the loop goes
\* on), any other message is followed by run_until_stalled.
AfterMatch(m) == IF m = "WM_QUIT" THEN "wait" ELSE "drain"

\* A window_proc that, called from the modal loop inside a poll, goes on
\* to run_until_stalled once its spawn has returned.
ContReenter(site, res) ==
    CASE site = "wproc_call" -> IF res = "Ok" THEN "drain" ELSE "aborted"
      [] site = "modal_call" -> IF res = "Ok" THEN "drain" ELSE "aborted"
      [] site = "poll_call" -> IF res = "panic" THEN "aborted" ELSE "poll_ret"
      [] OTHER -> site

\* Where the owning thread continues when its own spawn call returns res.
\* window_proc unwraps the result inside catch_unwind and aborts on a panic.
Cont(site, res) ==
    CASE site = "wproc_call" ->
            IF res = "Ok" THEN AfterMatch("WM_LBUTTONDOWN") ELSE "aborted"
      [] site = "modal_call" -> IF res = "Ok" THEN "modal" ELSE "aborted"
      [] site = "poll_call" -> IF res = "panic" THEN "aborted" ELSE "poll_ret"
      [] OTHER -> site

\* line 94: self.0.upgrade().ok_or(())?
UpgradeOk == SharedAlive

\* A thread is outside spawn: it has not called it yet, or its last call
\* returned Ok ("idle"), Disconnected or LockFailure.
Returned == {"idle", "err_disc", "err_lock"}

\* lines 93-94, entered by thread th with future f; site is where the
\* owning thread is while it runs the call (a producer's site is unused)
\* and base is the future table the call finds.
Upgrade(th, f, site, base) ==
    IF UpgradeOk
    THEN /\ nextId <= MaxTasks
         /\ sp' = [sp EXCEPT ![th] = [pc |-> "lock", task |-> nextId,
                                      late |-> ~poolAlive]]
         /\ fut' = [base EXCEPT ![nextId] = f]
         /\ nextId' = nextId + 1
         /\ pc' = IF th = UI THEN site ELSE pc
         /\ lateRes' = lateRes
    ELSE /\ sp' = [sp EXCEPT ![th] = [pc |-> "err_disc", task |-> 0,
                                      late |-> FALSE]]
         /\ fut' = base
         /\ nextId' = nextId
         /\ pc' = IF th = UI THEN Cont(site, "Disconnected") ELSE pc
         /\ lateRes' = lateRes \cup {"Disconnected"}

\* A producer thread calls spawn.
SpawnUpgrade(th, f) ==
    /\ th \in Producers
    /\ sp[th].pc \in Returned
    /\ pc # "aborted"
    /\ Upgrade(th, f, pc, fut)
    /\ UNCHANGED << poolVars, pending, lock, wmNull, quitPosted, poisoned,
                    idx, any, pres, discarded, callHist, taskHist >>

\* A lock() that hands out the guard of a poisoned Mutex as well.
LockIgnoresPoison(p) == "Ok"

\* line 95: shared.lock().map_err(|_| ())?
LockResult(p) == IF p THEN "LockFailure" ELSE "Ok"

\* What thread th drops when its spawn call ends before line 97 has
\* pushed the future: the future, and Shared with everything in pending
\* if the Arc the call holds is the last one.
LastArc(th) == ~poolAlive /\ Holders = {th}
DropsUnpushed(th) ==
    {sp[th].task} \cup (IF LastArc(th) THEN Range(pending) ELSE {})

\* lines 95-97: lock, read thread_id, push_back; or the Err return of
\* line 95, which drops the future and the upgraded Arc.
SpawnLock(th) ==
    /\ sp[th].pc = "lock"
    /\ lock = "none"
    /\ IF LockResult(poisoned) = "Ok"
       THEN /\ lock' = th
            /\ pending' = Append(pending, sp[th].task)
            /\ sp' = [sp EXCEPT ![th].pc = "unlock"]
            /\ UNCHANGED << loopVars, fut, discarded, lateRes >>
       ELSE /\ lock' = lock
            /\ pending' = IF LastArc(th) THEN << >> ELSE pending
            /\ sp' = [sp EXCEPT ![th] = [pc |-> "err_lock", task |-> 0,
                                         late |-> FALSE]]
            /\ fut' = [ t \in TaskIds |->
                          IF t \in DropsUnpushed(th) THEN NoFut ELSE fut[t] ]
            /\ discarded' = discarded \cup DropsUnpushed(th)
            /\ lateRes' = IF sp[th].late THEN lateRes \cup {"LockFailure"}
                          ELSE lateRes
            /\ pc' = IF th = UI THEN Cont(pc, "LockFailure") ELSE pc
            /\ pres' = IF th = UI /\ pc = "poll_call" THEN "Ready" ELSE pres
            /\ UNCHANGED << idx, any >>
    /\ UNCHANGED << poolVars, wmNull, quitPosted, poisoned, nextId,
                    callHist, taskHist >>

\* line 97 panics with the guard held (push_back cannot grow the
\* VecDeque): unwinding drops the guard, which poisons the Mutex, then
\* the future and the Arc; the thread ends, and with the owning thread
\* the process.
PushPanic(th) ==
    /\ sp[th].pc = "lock"
    /\ lock = "none"
    /\ ~poisoned
    /\ poisoned' = TRUE
    /\ pending' = IF LastArc(th) THEN << >> ELSE pending
    /\ sp' = [sp EXCEPT ![th] = [pc |-> "panicked", task |-> 0,
                                 late |-> FALSE]]
    /\ fut' = [ t \in TaskIds |->
                  IF t \in DropsUnpushed(th) THEN NoFut ELSE fut[t] ]
    /\ discarded' = discarded \cup DropsUnpushed(th)
    /\ lateRes' = IF sp[th].late THEN lateRes \cup {"panic"} ELSE lateRes
    /\ pc' = IF th = UI THEN Cont(pc, "panic") ELSE pc
    /\ UNCHANGED << poolVars, lock, wmNull, quitPosted, idx, any, pres,
                    nextId, callHist, taskHist >>

\* A spawn without line 98: the guard lives on past the wake.
AfterDropKept(th) == th

\* The holder of the lock once thread th has run line 98.
AfterDrop(th) == "none"

\* line 98: drop(shared)
SpawnUnlock(th) ==
    /\ sp[th].pc = "unlock"
    /\ lock' = AfterDrop(th)
    /\ sp' = [sp EXCEPT ![th].pc = "post"]
    /\ UNCHANGED << poolVars, pending, wmNull, quitPosted, poisoned, loopVars,
                    fut, nextId, discarded, lateRes, callHist, taskHist >>

\* The Arc taken by upgrade is dropped when spawn returns or unwinds; the
\* last Arc drops Shared and with it every task still in pending.
DropArc(th) ==
    IF ~poolAlive /\ Holders = {th}
    THEN /\ pending' = << >>
         /\ discarded' = discarded \cup Range(pending)
         /\ fut' = [ t \in TaskIds |->
                       IF t \in Range(pending) THEN NoFut ELSE fut[t] ]
    ELSE UNCHANGED << pending, discarded, fut >>

\* lines 99-100: assert!(PostThreadMessageW(..) != 0); Ok(())
SpawnPost(th) ==
    /\ sp[th].pc = "post"
    /\ DropArc(th)
    /\ IF PostOk
       THEN /\ wmNull' = Queued(wmNull + 1)
            /\ sp' = [sp EXCEPT ![th] = [pc |-> "idle", task |-> 0,
                                         late |-> FALSE]]
            /\ callWakes' = IF th = UI /\ pc \in {"poll_call", "modal_call"}
                            THEN callWakes + 1 ELSE callWakes
            /\ pc' = IF th = UI THEN Cont(pc, "Ok") ELSE pc
            /\ lateRes' = IF sp[th].late THEN lateRes \cup {"Ok"}
                          ELSE lateRes
       ELSE /\ sp' = [sp EXCEPT ![th].pc = "panicked"]
            /\ pc' = IF th = UI THEN Cont(pc, "panic") ELSE pc
            /\ lateRes' = IF sp[th].late THEN lateRes \cup {"panic"}
                          ELSE lateRes
            /\ UNCHANGED << wmNull, callWakes >>
    /\ pres' = IF th = UI /\ pc = "poll_call" THEN "Ready" ELSE pres
    /\ modalWoken' = IF PostOk /\ InModal /\ sp[th].task \in Range(pending)
                      THEN modalWoken \cup {sp[th].task} ELSE modalWoken
    /\ UNCHANGED << poolVars, lock, quitPosted, poisoned, idx, any, nextId,
                    passLog, callPolls, passes, callN, polling, reent,
                    immediate, removed, ready, eff, woken >>

\* ------------------------------------------------------------ main_loop
Messages == {"WM_NULL", "WM_LBUTTONDOWN", "WM_DESTROY", "WM_QUIT", "WM_PAINT"}

\* What the message queue of the owning thread can hand out: a queued
\* WM_NULL, WM_QUIT after PostQuitMessage, or input from the user/system.
Available(m) ==
    CASE m = "WM_NULL" -> wmNull > 0
      [] m = "WM_QUIT" -> quitPosted
      [] m = "WM_LBUTTONDOWN" -> nextId <= MaxTasks
      [] m = "WM_DESTROY" -> ~quitPosted
      [] OTHER -> TRUE

\* lines 42-48 and window_proc: GetMessageW returns m, DispatchMessageW
\* runs window_proc for a window message (a thread message such as WM_NULL
\* has no window and is not dispatched), then the match on msg.message.
\* WM_LBUTTONDOWN enters spawn; WM_DESTROY calls PostQuitMessage.
GetMessage(m) ==
    /\ pc = "wait"
    /\ Available(m)
    /\ wmNull' = IF m = "WM_NULL" THEN wmNull - 1 ELSE wmNull
    /\ quitPosted' = CASE m = "WM_QUIT" -> FALSE
                       [] m = "WM_DESTROY" -> TRUE
                       [] OTHER -> quitPosted
    /\ IF m = "WM_LBUTTONDOWN"
       THEN Upgrade(UI, OnMouseDown, "wproc_call", fut)
       ELSE /\ pc' = AfterMatch(m)
            /\ UNCHANGED << sp, fut, nextId, lateRes >>
    /\ UNCHANGED << poolVars, pending, lock, poisoned, idx, any, pres,
                    discarded, callHist, taskHist >>

\* ------------------------------------------------ Pool::run_until_stalled
\* lines 69-70: lock().unwrap(), which panics on a poisoned Mutex (in
\* main_loop, so the process ends), then append pending to the tail of
\* executing
RusLock ==
    /\ pc = "drain"
    /\ lock = "none"
    /\ IF poisoned
       THEN /\ pc' = "aborted"
            /\ UNCHANGED << executing, pending, lock, callN, woken >>
       ELSE /\ lock' = UI
            /\ executing' = executing \o Entries(pending)
            /\ pending' = << >>
            /\ pc' = "unlock"
            /\ callN' = Len(executing) + Len(pending)
            /\ woken' = [ t \in TaskIds |->
                            IF woken[t] = 1 THEN 2 ELSE woken[t] ]
    /\ UNCHANGED << poolAlive, wmNull, quitPosted, poisoned, idx, any, pres,
                    sp, fut, nextId, discarded, lateRes, passLog, callPolls,
                    callWakes, passes, polling, reent, immediate, removed,
                    ready, eff, modalWoken >>

\* The guard is kept alive across the poll loop.
UnlockKept == UI

\* line 71: drop(shared)
UnlockTo == "none"

\* lines 71-74: unlock, enter the loop, start the first pass
RusUnlock ==
    /\ pc = "unlock"
    /\ lock' = UnlockTo
    /\ pc' = "iter"
    /\ idx' = 1
    /\ any' = FALSE
    /\ passes' = 1
    /\ UNCHANGED << poolVars, pending, wmNull, quitPosted, poisoned, pres, sp,
                    fut, nextId, discarded, lateRes, passLog, callPolls,
                    callWakes, callN, polling, reent, immediate, taskHist >>

\* A future's poll first consumes the event it awaits, if that has fired.
Consume(f) ==
    IF f.awaits > 0 /\ f.armed /\ f.fired
    THEN [f EXCEPT !.awaits = @ - 1, !.armed = FALSE, !.fired = FALSE]
    ELSE f

\* A poll is spurious when the future is suspended on an event that has
\* not fired: it returns Pending and changes nothing.
Spurious(f) == f.awaits > 0 /\ f.armed /\ ~f.fired

\* The wake history once task t is polled.
Polled(t) == [woken EXCEPT ![t] = IF @ = 2 THEN 0 ELSE @]

\* line 76: e.future.as_mut().poll(..) is entered for executing[idx].
\* The future runs to its next await: it suspends there (Pending; it may
\* wake itself first), or it reaches its end, where a "spawner" future
\* calls spawn and on_mouse_down opens its MessageBoxW, and returns Ready.
PollBegin ==
    /\ pc = "iter"
    /\ idx <= Len(executing)
    /\ LET t == executing[idx].id
           g == Consume(fut[t])
       IN /\ passLog' = Append(passLog, t)
          /\ polling' = t
          /\ modalWoken' = modalWoken \ {t}
          /\ reent' = IF g.awaits = 0 /\ g.kind = "spawner"
                          /\ nextId <= MaxTasks /\ UpgradeOk
                       THEN reent \cup {nextId} ELSE reent
          /\ callPolls' = [callPolls EXCEPT ![t] = @ + 1]
          /\ eff' = IF Spurious(fut[t]) THEN eff
                    ELSE [eff EXCEPT ![t] = @ + 1]
          /\ IF g.awaits > 0
             THEN /\ pc' = "poll_ret"
                  /\ pres' = "Pending"
                  /\ UNCHANGED << sp, nextId, lateRes >>
                  /\ IF g.armed
                     THEN /\ fut' = [fut EXCEPT ![t] = g]
                          /\ woken' = Polled(t)
                          /\ UNCHANGED << wmNull, callWakes >>
                     ELSE \E w \in (IF g.kind = "plain" THEN BOOLEAN
                                    ELSE {FALSE}) :
                          /\ fut' = [fut EXCEPT ![t] =
                                [g EXCEPT !.armed = TRUE, !.fired = w]]
                          /\ wmNull' = IF w THEN Queued(wmNull + 1)
                                        ELSE wmNull
                          /\ callWakes' = IF w THEN callWakes + 1
                                          ELSE callWakes
                          /\ woken' = IF w THEN [woken EXCEPT ![t] = 1]
                                      ELSE Polled(t)
             ELSE /\ UNCHANGED << wmNull, callWakes >>
                  /\ woken' = Polled(t)
                  /\ CASE g.kind = "spawner" /\ nextId <= MaxTasks ->
                            /\ Upgrade(UI, ChildFut, "poll_call",
                                       [fut EXCEPT ![t] = g])
                            /\ pres' = pres
                      [] g.kind = "modal" ->
                            /\ pc' = "modal"
                            /\ fut' = [fut EXCEPT ![t] = g]
                            /\ UNCHANGED << sp, nextId, pres, lateRes >>
                      [] OTHER ->
                            /\ pc' = "poll_ret"
                            /\ pres' = "Ready"
                            /\ fut' = [fut EXCEPT ![t] = g]
                            /\ UNCHANGED << sp, nextId, lateRes >>
    /\ UNCHANGED << poolVars, pending, lock, quitPosted, poisoned, idx, any,
                    discarded, removed, ready, passes, callN, immediate >>

\* on_mouse_down line 33: MessageBoxW runs its own message loop on the
\* owning thread. It dispatches window messages to window_proc, so a click
\* on the window spawns; a thread message (WM_NULL) it retrieves is lost.
ModalClick ==
    /\ pc = "modal"
    /\ nextId <= MaxTasks
    /\ Upgrade(UI, OnMouseDown, "modal_call", fut)
    /\ UNCHANGED << poolVars, pending, lock, wmNull, quitPosted, poisoned,
                    idx, any, pres, discarded, callHist, taskHist >>

ModalNull ==
    /\ pc = "modal"
    /\ wmNull > 0
    /\ wmNull' = wmNull - 1
    /\ UNCHANGED << poolVars, pending, lock, quitPosted, poisoned, loopVars,
                    sp, fut, nextId, discarded, lateRes, callHist, taskHist >>

\* The user closes the message box: MessageBoxW returns, the future ends.
ModalExit ==
    /\ pc = "modal"
    /\ pc' = "poll_ret"
    /\ pres' = "Ready"
    /\ UNCHANGED << poolVars, pending, lock, wmNull, quitPosted, poisoned,
                    idx, any, sp, fut, nextId, discarded, lateRes, callHist,
                    taskHist >>

\* lines 77-82: the match on the poll's result
PollReturn ==
    /\ pc = "poll_ret"
    /\ LET t == executing[idx].id
       IN IF pres = "Ready"
          THEN /\ executing' = [executing EXCEPT ![idx].done = TRUE]
               /\ any' = TRUE
               /\ ready' = [ready EXCEPT ![t] = @ + 1]
               /\ immediate' = IF fut[t].k = 0 /\ ready[t] = 0
                                THEN immediate \cup {t} ELSE immediate
          ELSE UNCHANGED << executing, any, ready, immediate >>
    /\ idx' = idx + 1
    /\ pc' = "iter"
    /\ pres' = "none"
    /\ polling' = 0
    /\ UNCHANGED << poolAlive, pending, lock, wmNull, quitPosted, poisoned,
                    sp, fut, nextId, discarded, lateRes, passLog, callPolls,
                    callWakes, passes, callN, reent, removed, eff, woken,
                    modalWoken >>

\* A loop that never takes the early return, and one that always does.
StalledNever(a) == FALSE
StalledAlways(a) == TRUE

\* line 84: if !any { return }
Stalled(a) == ~a

\* The entries of s that are no longer in r, and the future table once
\* the futures of the tasks in d are dropped with their Entry.
Gone(s, r) == Range(Ids(s)) \ Range(Ids(r))
Dropped(ft, d) == [ t \in TaskIds |-> IF t \in d THEN NoFut ELSE ft[t] ]

\* A retain with the predicate inverted, and a retain that is left out.
RECURSIVE RetainDone(_)
RetainDone(s) ==
    IF s = << >> THEN << >>
    ELSE IF Head(s).done THEN << Head(s) >> \o RetainDone(Tail(s))
         ELSE RetainDone(Tail(s))
CompactKeepDone(s) == RetainDone(s)
CompactNothing(s) == s

\* line 85: self.executing.retain(|e| !e.done)
Compact(s) == Retain(s)

\* lines 84-86 at the end of the for loop: return to main_loop when no
\* poll of the pass returned Ready (the closure ends and the loop goes
\* round to GetMessageW), else drop the done entries and start a pass.
PassEnd ==
    /\ pc = "iter"
    /\ idx > Len(executing)
    /\ IF Stalled(any)
       THEN /\ pc' = "wait"
            /\ idx' = 1
            /\ passes' = 0
            /\ passLog' = << >>
            /\ callPolls' = [ t \in TaskIds |-> 0 ]
            /\ callWakes' = 0
            /\ callN' = 0
            /\ reent' = {}
            /\ immediate' = {}
            /\ UNCHANGED << executing, any, removed, fut, eff, woken,
                            modalWoken >>
       ELSE /\ executing' = Compact(executing)
            /\ removed' = removed \cup Gone(executing, Compact(executing))
            /\ fut' = Dropped(fut, Gone(executing, Compact(executing)))
            /\ eff' = [ t \in TaskIds |->
                          IF t \in Gone(executing, Compact(executing))
                          THEN 0 ELSE eff[t] ]
            /\ woken' = [ t \in TaskIds |->
                            IF t \in Gone(executing, Compact(executing))
                            THEN 0 ELSE woken[t] ]
            /\ modalWoken' = modalWoken \ Gone(executing, Compact(executing))
            /\ idx' = 1
            /\ any' = FALSE
            /\ passes' = passes + 1
            /\ passLog' = << >>
            /\ pc' = "iter"
            /\ UNCHANGED << callPolls, callWakes, callN, reent, immediate >>
    /\ UNCHANGED << poolAlive, pending, lock, wmNull, quitPosted, poisoned,
                    pres, sp, nextId, discarded, lateRes, ready, polling >>

\* ------------------------------------------------------------ the rest
\* The event a suspended future awaits fires on another thread (wait_for:
\* the sleeping thread's sender.send), which invokes the Waker built in
\* Pool::new (line 56). With the Pool dropped the future is gone.
FireEvent(t) ==
    /\ poolAlive
    /\ fut[t].armed /\ ~fut[t].fired
    /\ fut' = [fut EXCEPT ![t].fired = TRUE]
    /\ wmNull' = IF PostOk THEN Queued(wmNull + 1) ELSE wmNull
    /\ woken' = [woken EXCEPT ![t] = 1]
    /\ modalWoken' = IF InModal /\ PostOk THEN modalWoken \cup {t}
                      ELSE modalWoken
    /\ UNCHANGED << poolVars, pending, lock, quitPosted, poisoned, loopVars,
                    sp, nextId, discarded, lateRes, callHist, removed, ready,
                    eff >>

\* The Pool is dropped by the thread that owns it, outside any of its
\* methods: executing is dropped with it, and Shared too unless a spawn
\* in progress still holds an upgraded Arc.
DropPool ==
    /\ pc = "wait"
    /\ poolAlive
    /\ poolAlive' = FALSE
    /\ executing' = << >>
    /\ pending' = IF Holders = {} THEN << >> ELSE pending
    /\ LET d == Range(Ids(executing)) \cup
                (IF Holders = {} THEN Range(pending) ELSE {})
       IN /\ discarded' = discarded \cup d
          /\ fut' = [ t \in TaskIds |-> IF t \in d THEN NoFut ELSE fut[t] ]
          /\ eff' = [ t \in TaskIds |-> IF t \in d THEN 0 ELSE eff[t] ]
          /\ woken' = [ t \in TaskIds |-> IF t \in d THEN 0 ELSE woken[t] ]
    /\ modalWoken' = {}
    /\ pc' = "dropped"
    /\ UNCHANGED << lock, wmNull, quitPosted, poisoned, idx, any, pres, sp,
                    nextId, lateRes, callHist, removed, ready >>

\* The owning thread ends; its thread id stops naming a message queue.
ThreadExit ==
    /\ pc = "dropped"
    /\ pc' = "exited"
    /\ UNCHANGED << poolVars, pending, lock, wmNull, quitPosted, poisoned,
                    idx, any, pres, sp, fut, nextId, discarded, lateRes,
                    callHist, taskHist >>

Next ==
    \/ \E th \in Producers, f \in ProducerFutures : SpawnUpgrade(th, f)
    \/ \E th \in Threads : SpawnLock(th)
    \/ \E th \in Threads : SpawnUnlock(th)
    \/ \E th \in Threads : SpawnPost(th)
    \/ \E m \in Messages : GetMessage(m)
    \/ RusLock
    \/ RusUnlock
    \/ PollBegin
    \/ ModalClick
    \/ ModalNull
    \/ ModalExit
    \/ PollReturn
    \/ PassEnd
    \/ \E t \in TaskIds : FireEvent(t)
    \/ DropPool
    \/ ThreadExit

Spec == Init /\ [][Next]_vars

\* The same program with a panic under the lock among its steps.
PoisonNext ==
    \/ \E th \in Producers, f \in ProducerFutures : SpawnUpgrade(th, f)
    \/ \E th \in Threads : SpawnLock(th)
    \/ \E th \in Threads : PushPanic(th)
    \/ \E th \in Threads : SpawnUnlock(th)
    \/ \E th \in Threads : SpawnPost(th)
    \/ \E m \in Messages : GetMessage(m)
    \/ RusLock
    \/ RusUnlock
    \/ PollBegin
    \/ ModalClick
    \/ ModalNull
    \/ ModalExit
    \/ PollReturn
    \/ PassEnd
    \/ \E t \in TaskIds : FireEvent(t)
    \/ DropPool
    \/ ThreadExit

PoisonSpec == Init /\ [][PoisonNext]_vars

\* The program with a message box that takes no thread message off the
\* queue of the owning thread: every WM_NULL is retrieved by main_loop.
NoStealNext ==
    \/ \E th \in Producers, f \in ProducerFutures : SpawnUpgrade(th, f)
    \/ \E th \in Threads : SpawnLock(th)
    \/ \E th \in Threads : SpawnUnlock(th)
    \/ \E th \in Threads : SpawnPost(th)
    \/ \E m \in Messages : GetMessage(m)
    \/ RusLock
    \/ RusUnlock
    \/ PollBegin
    \/ ModalClick
    \/ ModalExit
    \/ PollReturn
    \/ PassEnd
    \/ \E t \in TaskIds : FireEvent(t)
    \/ DropPool
    \/ ThreadExit

NoStealSpec == Init /\ [][NoStealNext]_vars

\* ------------------------------------------------- the running event loop
\* The steps of a thread that is running happen: a thread that can move
\* on in spawn or in run_until_stalled does so, a lock that keeps coming
\* free is acquired, GetMessageW returns while a WM_NULL is queued, and a
\* message box is closed at some time. Nothing is assumed about the user's
\* input, about other messages, or about the events futures wait for.
Fairness ==
    /\ WF_vars(GetMessage("WM_NULL"))
    /\ SF_vars(RusLock)
    /\ WF_vars(RusUnlock)
    /\ WF_vars(PollBegin)
    /\ WF_vars(PollReturn)
    /\ WF_vars(PassEnd)
    /\ WF_vars(ModalExit)
    /\ \A th \in Threads :
          /\ SF_vars(SpawnLock(th))
          /\ WF_vars(SpawnUnlock(th))
          /\ WF_vars(SpawnPost(th))

\* main_loop runs for good (the Pool lives in a thread_local of the
\* thread that loops), with the modal loop of on_mouse_down.
ModalLiveNext ==
    \/ \E th \in Producers, f \in ProducerFutures : SpawnUpgrade(th, f)
    \/ \E th \in Threads : SpawnLock(th)
    \/ \E th \in Threads : SpawnUnlock(th)
    \/ \E th \in Threads : SpawnPost(th)
    \/ \E m \in Messages : GetMessage(m)
    \/ RusLock
    \/ RusUnlock
    \/ PollBegin
    \/ ModalClick
    \/ ModalNull
    \/ ModalExit
    \/ PollReturn
    \/ PassEnd
    \/ \E t \in TaskIds : FireEvent(t)

ModalLiveSpec == Init /\ [][ModalLiveNext]_vars /\ Fairness

\* The same, with every WM_NULL delivered to main_loop: the modal loop
\* retrieves none.
LiveNext ==
    \/ \E th \in Producers, f \in ProducerFutures : SpawnUpgrade(th, f)
    \/ \E th \in Threads : SpawnLock(th)
    \/ \E th \in Threads : SpawnUnlock(th)
    \/ \E th \in Threads : SpawnPost(th)
    \/ \E m \in Messages : GetMessage(m)
    \/ RusLock
    \/ RusUnlock
    \/ PollBegin
    \/ ModalClick
    \/ ModalExit
    \/ PollReturn
    \/ PassEnd
    \/ \E t \in TaskIds : FireEvent(t)

LiveSpec == Init /\ [][LiveNext]_vars /\ Fairness

\* =============================================================== claims
Count(s, t) == Cardinality({ i \in 1..Len(s) : s[i] = t })

\* The task has been pushed by its spawn call (line 97 has run).
Pushed(t) ==
    /\ t < nextId
    /\ \A th \in Threads : ~(sp[th].pc = "lock" /\ sp[th].task = t)

\* The owning thread is inside a poll (line 76 has not returned).
InPoll == pc \in {"poll_ret", "poll_call", "modal", "modal_call"}

\* run_until_stalled is about to return (line 84 with any = false).
AtReturn == pc = "iter" /\ idx > Len(executing) /\ ~any

\* ------------------------------------------------------------------ C1
\* C1: while the Pool exists, every task pushed by a spawn is in exactly
\* one place - once in the pending queue, once in the executing sequence,
\* or removed after completing - and a task not yet pushed is in none; a
\* removed task has completed.
C1_ExactlyOnePlace ==
    poolAlive =>
        \A t \in TaskIds :
            /\ Count(pending, t) + Count(Ids(executing), t)
                 + (IF t \in removed THEN 1 ELSE 0)
               = IF Pushed(t) THEN 1 ELSE 0
            /\ t \in removed => ready[t] >= 1
            /\ t \notin discarded

\* Two producers are inside spawn, one has pushed and the other has not,
\* while the owning thread is in the middle of a pass.
C1_Witness ==
    /\ poolAlive
    /\ sp["p1"].pc = "unlock"
    /\ sp["p2"].pc = "lock"
    /\ pending = << sp["p1"].task >>
    /\ pc = "iter"

\* ------------------------------------------------------------------ C3
\* C3: a poll returns Ready at most once per task; the task polled is
\* never one that has already returned Ready; every pass starts with no
\* done entry in executing; a removed task is in no container and is
\* not polled.
C3_ReadyAtMostOnce ==
    /\ \A t \in TaskIds : ready[t] <= 1
    /\ polling # 0 => ready[polling] = 0 /\ polling \notin removed
    /\ \A i \in 1..Len(executing) :
          executing[i].done => pc \in {"iter", "poll_ret", "poll_call",
                                       "modal", "modal_call"} /\ i < idx
    /\ \A t \in removed :
          /\ Count(Ids(executing), t) = 0
          /\ Count(passLog, t) = 0

\* A task has been removed and, in a later call, another task is polled.
C3_Witness ==
    /\ removed # {}
    /\ passes = 1
    /\ polling # 0
    /\ pc = "poll_ret"

\* ------------------------------------------------------------------ C4
\* C4 (as claimed): every spawn call that begins after the Pool has been
\* dropped returns Disconnected; none returns Ok and none panics.
C4_LateSpawnDisconnected == lateRes \subseteq {"Disconnected"}

\* ------------------------------------------------------------------ C5
Queue == Ids(executing) \o pending

Pos(q, t) == CHOOSE i \in 1..Len(q) : q[i] = t

\* C5: push_back and the drain keep the order of submission. In every
\* step, two tasks that stay in executing-then-pending keep their order
\* and a task that enters comes after those already there; the drain
\* moves the whole pending queue, in order, behind the entries executing
\* already has; and within a pass the tasks are polled in the order of
\* the executing sequence.
C5_OrderStep ==
    /\ \A a, b \in Range(Queue) \cap Range(Queue') :
          Pos(Queue, a) < Pos(Queue, b) => Pos(Queue', a) < Pos(Queue', b)
    /\ \A b \in Range(Queue') \ Range(Queue) :
          \A a \in Range(Queue) \cap Range(Queue') :
              Pos(Queue', a) < Pos(Queue', b)
    /\ (pc = "drain" /\ pc' = "unlock") =>
          /\ pending' = << >>
          /\ Ids(executing') = Ids(executing) \o pending

C5_PassInOrder ==
    /\ Len(passLog) <= Len(executing)
    /\ \A i \in 1..Len(passLog) : passLog[i] = executing[i].id

\* C5: tasks are moved to executing and polled in the order they were
\* pushed; no step reorders the queue and each pass polls front to back.
C5_FifoOrder == [][C5_OrderStep]_vars /\ []C5_PassInOrder

\* Task 2 was pushed before task 1, both were drained together, and the
\* pass has polled them in that order.
C5_Witness ==
    /\ Ids(executing) = << 2, 1 >>
    /\ passLog = << 2, 1 >>

\* ------------------------------------------------------------------ C6
\* C6: a poll begins only when no poll is in progress, also while the
\* poll in progress runs the modal loop and window_proc; and a step in
\* which a producer thread moves on in spawn changes neither executing
\* nor the future of a task in executing nor the poll in progress.
C6_PollStep ==
    /\ (polling' # polling /\ polling' # 0) => polling = 0
    /\ (\E th \in Producers : sp'[th] # sp[th]) =>
          /\ executing' = executing
          /\ polling' = polling
          /\ \A t \in Range(Ids(executing)) : fut'[t] = fut[t]

C6_PollState ==
    /\ polling # 0 <=> InPoll
    /\ polling # 0 => /\ idx <= Len(executing)
                      /\ executing[idx].id = polling
                      /\ pc \notin {"dropped", "exited"}

\* C6: only the owning thread polls, and never two polls at once, the
\* nested modal loop included.
C6_OnePollAtATime == [][C6_PollStep]_vars /\ []C6_PollState

\* window_proc, called from the modal loop of a poll in progress, has
\* pushed a task and is about to post its WM_NULL.
C6_Witness ==
    /\ pc = "modal_call"
    /\ polling # 0
    /\ sp[UI].pc = "post"
    /\ Len(pending) = 1

\* ------------------------------------------------------------------ C8
\* C8: when the owning thread reaches the lock of spawn it does not hold
\* the lock itself; a task spawned from inside a poll stays in the
\* pending queue, unpolled, for the rest of that call; the drain of a
\* call leaves nothing in the pending queue; and a call returns only
\* after it has polled every task that is in executing.
C8_ReentrantSpawn ==
    /\ sp[UI].pc = "lock" => lock # UI
    /\ \A c \in reent :
          /\ Count(Ids(executing), c) = 0
          /\ callPolls[c] = 0
          /\ Count(pending, c) = 1 \/ (sp[UI].task = c /\ sp[UI].pc = "lock")
    /\ pc = "unlock" => pending = << >>
    /\ AtReturn => \A i \in 1..Len(executing) : callPolls[executing[i].id] >= 1

\* A later call has drained the task spawned from inside a poll and has
\* polled it to Ready.
C8_Witness ==
    \E i \in 1..Len(executing) :
        /\ fut[executing[i].id].kind = "child"
        /\ executing[i].done
        /\ reent = {}

\* ------------------------------------------------------------------ C9
\* The pool has held one task only.
Sole == nextId = 2

\* C9: a task that is alone in the pool is polled at most once in a call
\* and exactly once by the time the call returns; it becomes Ready on the
\* poll that is its (k+1)-th poll that was not spurious, k being the
\* number of its awaits, and is still in executing, not done, after a
\* call that polled it fewer times than that; a call that polled it to
\* Ready returns with the task removed.
C9_OnePollPerCall ==
    Sole =>
        /\ callPolls[1] <= 1
        /\ \A i \in 1..Len(executing) :
              /\ executing[i].done => eff[1] = fut[1].k + 1
              /\ (~executing[i].done /\ ~InPoll) => eff[1] <= fut[1].k
        /\ (AtReturn /\ callN = 1) =>
              /\ callPolls[1] = 1
              /\ \/ Ids(executing) = << 1 >> /\ ~executing[1].done
                                            /\ ready[1] = 0
                 \/ executing = << >> /\ 1 \in removed /\ ready[1] = 1

\* The lone task has two awaits and its third poll, the only poll of
\* this call, has returned Ready.
C9_Witness ==
    /\ Sole
    /\ Len(executing) = 1
    /\ executing[1].done
    /\ fut[1].k = 2
    /\ eff[1] = 3
    /\ callPolls[1] = 1

\* ----------------------------------------------------------------- C10
\* C10: outside run_until_stalled, and when it is about to return,
\* executing holds no done entry; a task that was Ready on its first poll
\* in this call has been removed by then; and a call that had one task to
\* poll, which was Ready on its first poll without spawning, returns with
\* executing empty and has posted no WM_NULL.
C10_ImmediateTask ==
    /\ (pc \in {"wait", "wproc_call", "drain", "unlock"} \/ AtReturn) =>
          \A i \in 1..Len(executing) : ~executing[i].done
    /\ pc \in {"wait", "wproc_call", "drain", "unlock"} => immediate = {}
    /\ AtReturn =>
          /\ \A t \in immediate :
                Count(Ids(executing), t) = 0 /\ t \in removed
          /\ (callN = 1 /\ immediate # {} /\ reent = {}) =>
                callWakes = 0 /\ executing = << >>

\* A call whose one task was Ready on its first poll is about to return.
C10_Witness ==
    /\ AtReturn
    /\ callN = 1
    /\ immediate = {1}
    /\ reent = {}
    /\ 1 \in removed
    /\ passes = 2

\* ------------------------------------------------------------------ C2
\* C2: with main_loop running and every WM_NULL delivered to it, a task
\* in the pending queue is eventually in the executing sequence.
C2_EventuallyExecuting ==
    \A t \in TaskIds :
        (Count(pending, t) = 1) ~> (Count(Ids(executing), t) = 1)

\* Two producers have pushed a task each and posted; the owning thread
\* is blocked in GetMessageW.
C2_Witness ==
    /\ Len(pending) = 2
    /\ sp["p1"].pc = "idle"
    /\ sp["p2"].pc = "idle"
    /\ pc = "wait"
    /\ wmNull = 2

\* ------------------------------------------------------------------ C7
\* C7 (as claimed): once the waker of a task has been invoked, a call of
\* run_until_stalled that begins afterwards polls the task, unless the
\* task leaves executing first.
C7_WakeThenLaterCall ==
    \A t \in TaskIds : (woken[t] # 0) ~> (woken[t] = 0)

\* ----------------------------------------------------------------- C11
\* The drain of the call in progress found pending and executing empty.
EmptyCall == pc \in {"unlock", "iter"} /\ callN = 0

C11_EmptyState ==
    /\ EmptyCall =>
          /\ executing = << >>
          /\ passLog = << >>
          /\ \A t \in TaskIds : callPolls[t] = 0
          /\ callWakes = 0
          /\ passes <= 1
          /\ ~any
          /\ polling = 0
    /\ InPoll => callN > 0

C11_EmptyStep ==
    /\ (pc = "drain" /\ pc' = "unlock" /\ executing = << >>
          /\ pending = << >>) =>
          /\ callN' = 0
          /\ executing' = << >> /\ pending' = << >>
          /\ wmNull' = wmNull /\ fut' = fut /\ sp' = sp
    /\ (EmptyCall /\ pc' # pc) =>
          /\ pc' = IF pc = "unlock" THEN "iter" ELSE "wait"
          /\ executing' = executing /\ pending' = pending
          /\ wmNull' = wmNull /\ fut' = fut /\ sp' = sp
          /\ poolAlive' = poolAlive

\* C11: a call of run_until_stalled that finds the pending queue and the
\* executing sequence empty polls no task, posts no WM_NULL, leaves both
\* containers as they are and returns after its first, empty pass.
C11_EmptyPoolFrame == [][C11_EmptyStep]_vars /\ []C11_EmptyState

\* A call on a pool that has completed a task and is empty again is
\* about to return.
C11_Witness ==
    /\ EmptyCall
    /\ pc = "iter"
    /\ passes = 1
    /\ removed # {}
    /\ pending = << >>

\* ----------------------------------------------------------------- C12
\* The owning thread is inside run_until_stalled (lines 69-86).
InCall == pc \in {"drain", "unlock", "iter"} \/ InPoll

\* Every pass but the first follows a pass that removed an entry.
C12_PassBound ==
    /\ passes >= 1 => passes + Len(executing) <= callN + 1
    /\ passes <= callN + 1

\* C12: a call that has n tasks in executing after its drain makes at
\* most n + 1 passes, whatever is spawned or woken meanwhile, and, each
\* poll returning (the message box of on_mouse_down is closed at some
\* time), the call returns to main_loop.
C12_CallTerminates == []C12_PassBound /\ (InCall ~> (pc = "wait"))

\* Two tasks were drained; one completed in the first pass, the other in
\* the second, and the third pass is the empty one that ends the call.
C12_Witness ==
    /\ callN = 2
    /\ passes = 3
    /\ executing = << >>
    /\ pc = "iter"

\* ----------------------------------------------------------------- C13
\* The step in which the spawn call of thread th returns an error.
SpawnFails(th) ==
    /\ sp'[th] # sp[th]
    /\ sp'[th].pc \in {"err_disc", "err_lock"}

C13_FailStep ==
    \A th \in Threads :
        /\ SpawnFails(th) =>
              /\ sp[th].pc \in Returned \cup {"lock"}
              /\ Len(pending') <= Len(pending)
              /\ Range(pending') \subseteq Range(pending)
              /\ wmNull' = wmNull
              /\ executing' = executing
              /\ lock' = lock
        /\ (poisoned /\ sp[th].pc = "lock" /\ sp'[th] # sp[th]) =>
              sp'[th].pc = "err_lock"
        /\ (~SharedAlive /\ sp[th].pc \in Returned /\ sp'[th] # sp[th]) =>
              sp'[th].pc = "err_disc"

C13_FailState ==
    /\ \A th \in Threads :
          sp[th].pc \in {"err_disc", "err_lock"} => sp[th].task = 0
    /\ \A t \in discarded :
          /\ Count(pending, t) = 0
          /\ Count(Ids(executing), t) = 0
          /\ fut[t] = NoFut

\* C13: a spawn call that fails does so in the step that finds the Pool
\* gone (Disconnected) or the Mutex poisoned (LockFailure): that step
\* appends nothing to the pending queue and posts no WM_NULL, and the
\* future it was given is in no container afterwards; with the Mutex
\* poisoned no spawn call gets past the lock.
C13_FailedSpawnNoEffect == [][C13_FailStep]_vars /\ []C13_FailState

\* Thread p1 panicked under the lock; the spawn of p2 then returned
\* LockFailure, and its future was dropped without being queued.
C13_Witness ==
    /\ poisoned
    /\ poolAlive
    /\ sp["p1"].pc = "panicked"
    /\ sp["p2"].pc = "err_lock"
    /\ 2 \in discarded
    /\ pending = << >>
    /\ wmNull = 0

C15_WakeWhileLocked ==
    [][ \A th \in Threads :
          (sp[th].pc # "idle" /\ sp'[th].pc = "idle") => lock = th ]_vars

C15_SpawnStep ==
    \A th \in Threads :
        /\ (sp[th].pc = "lock" /\ sp'[th].pc = "unlock") =>
              /\ lock = "none" /\ lock' = th
              /\ pending' = Append(pending, sp[th].task)
              /\ wmNull' = wmNull
        /\ (sp[th].pc = "unlock" /\ sp'[th].pc # "unlock") =>
              /\ sp'[th].pc = "post"
              /\ lock = th /\ lock' = "none"
              /\ pending' = pending
              /\ wmNull' = wmNull
        /\ (sp[th].pc = "post" /\ sp'[th].pc # "post") =>
              /\ lock # th /\ lock' = lock
              /\ IF pc = "exited"
                 THEN sp'[th].pc = "panicked" /\ wmNull' = wmNull
                 ELSE /\ sp'[th].pc = "idle"
                      /\ wmNull' = IF wmNull < MaxQueued THEN wmNull + 1
                                   ELSE MaxQueued
        /\ (sp[th].pc # "idle" /\ sp'[th].pc = "idle") => sp[th].pc = "post"

\* C15 (amended): a successful spawn appends the task to the tail of the
\* pending queue under the lock, then releases the lock, then posts the
\* WM_NULL to the owning thread, then returns Ok: the wake is sent after
\* the spawning thread has released the lock.
C15_PushUnlockWake == [][C15_SpawnStep]_vars

\* Thread p1 has pushed and unlocked and has its wake still to send;
\* thread p2 holds the lock already and has pushed behind it.
C15_Witness ==
    /\ sp["p1"].pc = "post"
    /\ lock = "p2"
    /\ Len(pending) = 2
    /\ pending[1] = sp["p1"].task

\* ----------------------------------------------------------------- C16
\* The for loop of the current pass has run to its end (line 84 is next).
PassOver == pc = "iter" /\ idx > Len(executing)

\* Inside a call, after its drain.
InPasses == pc = "iter" \/ InPoll

C16_PassState ==
    /\ \A t \in TaskIds : Count(passLog, t) <= 1
    /\ InPasses =>
          /\ passes >= 1
          /\ any <=> (\E i \in 1..Len(executing) : executing[i].done)
          /\ \A i \in 1..Len(executing) :
                callPolls[executing[i].id] =
                    IF i < idx \/ (i = idx /\ InPoll) THEN passes
                    ELSE passes - 1
    /\ AtReturn => \A i \in 1..Len(executing) : ~executing[i].done

C16_PassStep ==
    (PassOver /\ (pc' # pc \/ passes' # passes)) =>
        IF any
        THEN /\ pc' = "iter"
             /\ passes' = passes + 1
             /\ idx' = 1
             /\ ~any'
             /\ \A i \in 1..Len(executing') : ~executing'[i].done
             /\ Range(Ids(executing')) =
                  { executing[i].id : i \in { j \in 1..Len(executing) :
                                                 ~executing[j].done } }
             /\ Len(executing') < Len(executing)
        ELSE /\ pc' = "wait"
             /\ executing' = executing

\* C16: in a pass each task is polled at most once; at the end of a pass
\* the call goes on to another pass exactly when a poll of that pass
\* returned Ready, and then without the done entries; so every task left
\* in executing is polled once in every pass of the call, with or without
\* a wake; and the call returns with no done entry in executing.
C16_PassSemantics == [][C16_PassStep]_vars /\ []C16_PassState

\* A task that returned Pending in the first pass, and whose waker has
\* not been invoked, has been polled again in the second pass of the same
\* call, after another task completed.
C16_Witness ==
    /\ passes = 2
    /\ pc = "poll_ret"
    /\ pres = "Pending"
    /\ callPolls[polling] = 2
    /\ woken[polling] = 0
    /\ fut[polling].armed /\ ~fut[polling].fired

\* ----------------------------------------------------------------- C17
\* The owning thread is blocked in GetMessageW with no WM_NULL queued.
BlockedIdle == pc = "wait" /\ wmNull = 0

\* C17: with every WM_NULL left to main_loop, whenever the owning thread
\* is blocked in GetMessageW and no WM_NULL is queued, each task in the
\* pending queue was pushed by a spawn call that has not posted its
\* WM_NULL yet.
C17_NoLostWakeup ==
    BlockedIdle =>
        \A i \in 1..Len(pending) :
            \E th \in Threads :
                /\ sp[th].pc \in {"unlock", "post"}
                /\ sp[th].task = pending[i]

\* The owning thread is blocked with no WM_NULL queued, while two
\* producers have pushed a task each and have their wakes still to send.
C17_Witness ==
    /\ BlockedIdle
    /\ Len(pending) = 2
    /\ sp["p1"].pc = "post"
    /\ sp["p2"].pc = "unlock"
    /\ removed = {}

\* ----------------------------------------------------------------- C18
\* Task t waits for a wake that is still to come: its spawn call has
\* pushed it and not yet posted.
WakeToCome(t) ==
    \E th \in Threads : sp[th].pc \in {"unlock", "post"} /\ sp[th].task = t

\* C18 (as claimed): a task whose wake was posted while the owning
\* thread was in the message box of on_mouse_down, and lost there, is
\* stalled until the box is closed and no longer. So when the owning
\* thread is back in GetMessageW with no WM_NULL queued, where only an
\* outside event lets it go on, no such task is still unpolled with no
\* wake to come.
C18_NoStallAfterModal ==
    BlockedIdle => \A t \in modalWoken : WakeToCome(t)

\* ----------------------------------------------------------------- C19
\* C19 (as claimed): a spawn call that got past the upgrade does not
\* panic at its wake, and when it returns Ok the Pool still exists and
\* the task has not been discarded.
C19_OkMeansHeld ==
    [][ \A th \in Threads :
          (sp[th].pc = "post" /\ sp'[th] # sp[th]) =>
              /\ sp'[th].pc = "idle"
              /\ poolAlive
              /\ sp[th].task \notin discarded' ]_vars

\* ----------------------------------------------------------------- C20
\* C20 (as claimed): the step in which GetMessageW hands WM_QUIT to
\* main_loop does not lead back to the blocking wait.
C20_QuitEndsLoop ==
    [][ (pc = "wait" /\ quitPosted /\ ~quitPosted') => pc' # "wait" ]_vars

====
